---------------------------- MODULE Spec2Model ----------------------------
(***************************************************************************)
(* hw1.py: a rose curve r = 1 + sin(4*theta) on a polar axis, saved to      *)
(* hw1_plot.pdf and then shown.                                             *)
(*                                                                          *)
(* The script is one straight line of statements.  Each statement is one    *)
(* action; pc names the statement that runs next.  The environment (file    *)
(* system, display backend, the user closing the viewer, a library call     *)
(* raising) is chosen nondeterministically.                                 *)
(*                                                                          *)
(* Floating-point values are fixed-point integers: the real number v is     *)
(* the integer round(v * Scale).  Every operation rounds to the nearest     *)
(* unit, so rounding error is part of the model and tolerances are counted  *)
(* in units of 1/Scale.                                                     *)
(***************************************************************************)
EXTENDS Integers, Sequences, FiniteSets, TLC

VARIABLES pc,        \* the statement that runs next
          status,    \* "running", "ok" (ran to the end), "failed" (uncaught exception)
          exitCode,  \* process exit status; -1 while the process runs
          failedAt,  \* the statement that raised, "none" if none has
          log,       \* the statements begun so far, in order
          theta,     \* module global theta (<<>> while unbound)
          r,         \* module global r (<<>> while unbound)
          fig,       \* the current figure held by pyplot
          file,      \* hw1_plot.pdf in the working directory
          viewer,    \* the interactive window: "none", "open", "closed"
          shownFig,  \* what the viewer displays
          env        \* the environment the process was started in

vars == <<pc, status, exitCode, failedAt, log, theta, r, fig, file, viewer,
          shownFig, env>>

-----------------------------------------------------------------------------
(* Fixed-point arithmetic *)

Base == 1000
Scale == Base * Base
One == Scale

\* tolerance of the numerical statements, in units of 1/Scale
Tol == 1

N == 100

Abs(a) == IF a < 0 THEN -a ELSE a

\* a / b rounded to the nearest integer (b > 0)
RoundDiv(a, b) == (2 * a + b) \div (2 * b)

\* the product of two fixed-point values in [0, Scale], rounded; the operands
\* are split in two limbs so that no intermediate exceeds 32 bits
MulLimbs[p \in Int \X Int] ==
    LET ah == p[1] \div Base
        al == p[1] % Base
        bh == p[2] \div Base
        bl == p[2] % Base
    IN  ah * bh + (((ah * bl + al * bh) * Base + al * bl) + Scale \div 2) \div Scale

Mul(a, b) == MulLimbs[<<a, b>>]

\* np.pi
Pi == (355 * Scale + 56) \div 113

\* 2*np.pi
TwoPi == 2 * Pi

-----------------------------------------------------------------------------
(* numpy *)

\* variant: endpoint=False, num samples of spacing (stop-start)/num
LinspaceNoEndpoint(start, stop, num) ==
    [i \in 1..num |-> start + RoundDiv((i - 1) * (stop - start), num)]

\* variant: one sample short
LinspaceShort(start, stop, num) ==
    [i \in 1..(num - 1) |-> start + RoundDiv((i - 1) * (stop - start), num - 1)]

\* np.linspace(start, stop, num) with the default endpoint=True:
\* num samples, start + i*(stop-start)/(num-1), the last one set to stop.
Linspace(start, stop, num) ==
    LET div == num - 1
        delta == stop - start
        y == [i \in 1..num |-> start + RoundDiv((i - 1) * delta, div)]
    IN  IF num > 1 THEN [y EXCEPT ![num] = stop] ELSE y

\* One - z*inner/k : one Horner step of the alternating Taylor series
Horner(z, k, inner) == One - RoundDiv(Mul(z, inner), k)

\* sin on |y| <= pi/4 : y - y^3/3! + y^5/5! - y^7/7! + y^9/9!
KernelSin(y) ==
    LET a == Abs(y)
        z == Mul(a, a)
        s == Mul(a, Horner(z, 6, Horner(z, 20, Horner(z, 42, Horner(z, 72, One)))))
    IN  IF y < 0 THEN -s ELSE s

\* cos on |y| <= pi/4 : 1 - y^2/2! + y^4/4! - y^6/6! + y^8/8! - y^10/10!
KernelCos(y) ==
    LET a == Abs(y)
        z == Mul(a, a)
    IN  Horner(z, 2, Horner(z, 12, Horner(z, 30, Horner(z, 56, Horner(z, 90, One)))))

\* np.sin of one value: reduce by the nearest multiple n of pi/2, then the
\* kernel the quadrant n mod 4 selects.
Sin(x) ==
    LET n == RoundDiv(2 * x, Pi)
        y == RoundDiv(2 * x - n * Pi, 2)
        q == n % 4
    IN  CASE q = 0 -> KernelSin(y)
          [] q = 1 -> KernelCos(y)
          [] q = 2 -> -KernelSin(y)
          [] OTHER -> -KernelCos(y)

\* np.cos of one value
Cos(x) ==
    LET n == RoundDiv(2 * x, Pi)
        y == RoundDiv(2 * x - n * Pi, 2)
        q == n % 4
    IN  CASE q = 0 -> KernelCos(y)
          [] q = 1 -> -KernelSin(y)
          [] q = 2 -> -KernelCos(y)
          [] OTHER -> KernelSin(y)

\* k * a, a + k, np.sin(a), np.cos(a) on an array: elementwise
ArrScale(k, a) == [i \in 1..Len(a) |-> k * a[i]]
ArrAdd(k, a) == [i \in 1..Len(a) |-> k + a[i]]
ArrSin(a) == [i \in 1..Len(a) |-> Sin(a[i])]
ArrCos(a) == [i \in 1..Len(a) |-> Cos(a[i])]

\* variant: the offset 1 dropped
RadiusPlain(t) == ArrSin(ArrScale(4, t))

\* variant: cos for sin
RadiusCos(t) == ArrAdd(One, ArrCos(ArrScale(4, t)))

\* 1 + np.sin(4*theta)
Radius(t) == ArrAdd(One, ArrSin(ArrScale(4, t)))

-----------------------------------------------------------------------------
(* The program *)

\* the statements of hw1.py in program order (lines 1, 2, 4, 5, 7, 8, 10, 11, 13)
Program == <<"import_np", "import_plt", "linspace", "radius", "subplots",
             "plot", "set_title", "savefig", "show">>

Index(s) == CHOOSE i \in 1..Len(Program) : Program[i] = s

\* variant: show before savefig
SuccShowFirst(s) ==
    CASE s = "set_title" -> "show"
      [] s = "show" -> "savefig"
      [] s = "savefig" -> "end"
      [] OTHER -> Program[Index(s) + 1]

\* variant: the title set after savefig
SuccTitleLate(s) ==
    CASE s = "plot" -> "savefig"
      [] s = "savefig" -> "set_title"
      [] s = "set_title" -> "show"
      [] s = "show" -> "end"
      [] OTHER -> Program[Index(s) + 1]

\* variant: the curve drawn a second time
SuccPlotTwice(s) ==
    CASE s = "set_title" /\ Len(fig.lines) < 2 -> "plot"
      [] s = "show" -> "end"
      [] OTHER -> Program[Index(s) + 1]

\* the statement after s; "end" after the last one
Succ(s) == IF Index(s) = Len(Program) THEN "end" ELSE Program[Index(s) + 1]

\* the figure before plt.subplots, and what a file written by an earlier run holds
NoFig == [axes |-> "none", lines |-> <<>>, title |-> ""]

Title == "Line Plot on Polar Axis"

Terminated == status # "running"

\* statement s begins
Begin(s) == /\ status = "running"
            /\ pc = s
            /\ log' = Append(log, s)

\* statement s completed: control moves to the next statement, and past the
\* last statement the interpreter exits with status 0
Finish(s) ==
    /\ pc' = Succ(s)
    /\ failedAt' = failedAt
    /\ IF Succ(s) = "end"
       THEN status' = "ok" /\ exitCode' = 0
       ELSE status' = status /\ exitCode' = exitCode

\* variant: the exception is caught and ignored
RaiseSwallowed(s) ==
    /\ pc' = Succ(s)
    /\ failedAt' = s
    /\ IF Succ(s) = "end"
       THEN status' = "failed" /\ exitCode' = 1
       ELSE status' = status /\ exitCode' = exitCode

\* statement s raised: nothing catches the exception, the interpreter prints
\* the traceback and exits with status 1
Raise(s) ==
    /\ pc' = "end"
    /\ failedAt' = s
    /\ status' = "failed"
    /\ exitCode' = 1

\* line 1: import numpy as np (ImportError when numpy cannot be loaded)
ImportNumpy ==
    /\ Begin("import_np")
    /\ \/ Finish("import_np")
       \/ Raise("import_np")
    /\ UNCHANGED <<theta, r, fig, file, viewer, shownFig, env>>

\* line 2: import matplotlib.pyplot as plt
ImportPyplot ==
    /\ Begin("import_plt")
    /\ \/ Finish("import_plt")
       \/ Raise("import_plt")
    /\ UNCHANGED <<theta, r, fig, file, viewer, shownFig, env>>

\* line 4: theta = np.linspace(0, 2*np.pi, 100)
LinspaceStep ==
    /\ Begin("linspace")
    /\ theta' = Linspace(0, TwoPi, N)
    /\ Finish("linspace")
    /\ UNCHANGED <<r, fig, file, viewer, shownFig, env>>

\* line 5: r = 1 + np.sin(4*theta)
RadiusStep ==
    /\ Begin("radius")
    /\ r' = Radius(theta)
    /\ Finish("radius")
    /\ UNCHANGED <<theta, fig, file, viewer, shownFig, env>>

\* line 7: fig, ax = plt.subplots(subplot_kw={'projection': 'polar'})
Subplots ==
    /\ Begin("subplots")
    /\ \/ /\ fig' = [axes |-> "polar", lines |-> <<>>, title |-> ""]
          /\ Finish("subplots")
       \/ /\ fig' = fig
          /\ Raise("subplots")
    /\ UNCHANGED <<theta, r, file, viewer, shownFig, env>>

\* what ax.plot(x, y) adds to the axis: one line through (x[i], y[i]) in index
\* order; arrays of different lengths are refused
CanPlot(x, y) == Len(x) = Len(y)

\* line 8: ax.plot(theta, r)
Plot ==
    /\ Begin("plot")
    /\ \/ /\ CanPlot(theta, r)
          /\ fig' = [fig EXCEPT !.lines = Append(@, [x |-> theta, y |-> r])]
          /\ Finish("plot")
       \/ /\ fig' = fig
          /\ Raise("plot")
    /\ UNCHANGED <<theta, r, file, viewer, shownFig, env>>

\* line 10: ax.set_title("Line Plot on Polar Axis")
SetTitle ==
    /\ Begin("set_title")
    /\ \/ /\ fig' = [fig EXCEPT !.title = Title]
          /\ Finish("set_title")
       \/ /\ fig' = fig
          /\ Raise("set_title")
    /\ UNCHANGED <<theta, r, file, viewer, shownFig, env>>

\* whether open("hw1_plot.pdf", "wb") succeeds: creating the file needs a
\* writable directory, truncating an existing one needs a writable file, and a
\* directory of that name cannot be opened
CanOpen ==
    CASE file.kind = "directory" -> FALSE
      [] file.kind = "absent" -> env.dirWritable
      [] OTHER -> env.fileWritable

\* variant: a failed write leaves a complete document
PartialAsComplete(f) == [kind |-> "pdf", content |-> f]

\* the file after a write that opened it and then failed (disk full, render
\* error while the pages are written): truncated, with no complete document
PartialFile(f) == [kind |-> "partial", content |-> NoFig]

\* the file after a complete write of figure f
WrittenFile(f) == [kind |-> "pdf", content |-> f]

\* line 11: plt.savefig("hw1_plot.pdf", format="pdf")
Savefig ==
    /\ Begin("savefig")
    /\ \/ /\ CanOpen
          /\ file' = WrittenFile(fig)
          /\ Finish("savefig")
       \/ /\ CanOpen
          /\ file' = PartialFile(fig)
          /\ Raise("savefig")
       \/ /\ ~CanOpen
          /\ file' = file
          /\ Raise("savefig")
    /\ UNCHANGED <<theta, r, fig, viewer, shownFig, env>>

\* line 13: plt.show().  An interactive backend opens the window on the
\* current figure and blocks in its main loop; a non-interactive backend
\* returns at once; the backend may also raise (no display).
Show ==
    /\ Begin("show")
    /\ \/ /\ env.backend = "interactive"
          /\ viewer' = "open"
          /\ shownFig' = fig
          /\ pc' = "blocked"
          /\ UNCHANGED <<status, exitCode, failedAt>>
       \/ /\ env.backend = "headless"
          /\ UNCHANGED <<viewer, shownFig>>
          /\ Finish("show")
       \/ /\ UNCHANGED <<viewer, shownFig>>
          /\ Raise("show")
    /\ UNCHANGED <<theta, r, fig, file, env>>

\* the user closes the window
Dismiss ==
    /\ viewer = "open"
    /\ viewer' = "closed"
    /\ UNCHANGED <<pc, status, exitCode, failedAt, log, theta, r, fig, file,
                   shownFig, env>>

\* variant: the window is opened again instead of show returning
ShowStuck ==
    /\ status = "running"
    /\ pc = "blocked"
    /\ viewer = "closed"
    /\ viewer' = "open"
    /\ UNCHANGED <<pc, status, exitCode, failedAt, log, theta, r, fig, file,
                   shownFig, env>>

\* plt.show() returns once the window is closed
ShowReturn ==
    /\ status = "running"
    /\ pc = "blocked"
    /\ viewer = "closed"
    /\ Finish("show")
    /\ UNCHANGED <<log, theta, r, fig, file, viewer, shownFig, env>>

\* the directory holds no hw1_plot.pdf, or the PDF of an earlier run, or a
\* directory of that name
InitialFiles == {[kind |-> "absent", content |-> NoFig],
                 [kind |-> "pdf", content |-> NoFig],
                 [kind |-> "directory", content |-> NoFig]}

Environments == [dirWritable : BOOLEAN, fileWritable : BOOLEAN,
                 backend : {"interactive", "headless"},
                 file0 : InitialFiles]

Init ==
    /\ pc = Program[1]
    /\ status = "running"
    /\ exitCode = -1
    /\ failedAt = "none"
    /\ log = <<>>
    /\ theta = <<>>
    /\ r = <<>>
    /\ fig = NoFig
    /\ env \in Environments
    /\ file = env.file0
    /\ viewer = "none"
    /\ shownFig = NoFig

\* the interpreter's steps
Step == \/ ImportNumpy
        \/ ImportPyplot
        \/ LinspaceStep
        \/ RadiusStep
        \/ Subplots
        \/ Plot
        \/ SetTitle
        \/ Savefig
        \/ Show
        \/ ShowReturn

Next == Step \/ Dismiss

Spec == Init /\ [][Next]_vars

\* the interpreter keeps running, and the user does close the window
FairSpec == Spec /\ WF_vars(Step) /\ WF_vars(Dismiss)

-----------------------------------------------------------------------------
(* Properties *)

InLog(s) == \E i \in 1..Len(log) : log[i] = s

\* statement s ran and returned
Completed(s) == /\ InLog(s)
                /\ failedAt # s
                /\ ~(s = "show" /\ pc = "blocked")

IsPrefix(a, b) == Len(a) <= Len(b) /\ a = SubSeq(b, 1, Len(a))

\* the curve ax.plot(theta, r) draws
Curve == [x |-> theta, y |-> r]

\* C1: whenever show has been invoked, savefig was invoked before it.
C1_SaveBeforeShow ==
    \A i \in 1..Len(log) :
        log[i] = "show" => \E j \in 1..(i - 1) : log[j] = "savefig"

C1_Witness == InLog("show") /\ pc = "blocked"

C3_TwoOutcomes ==
    /\ failedAt # "none" => Terminated
    /\ Terminated =>
        \/ /\ status = "ok"
           /\ failedAt = "none"
           /\ log = Program
           /\ exitCode = 0
        \/ /\ status = "failed"
           /\ failedAt # "none"
           /\ exitCode > 0
           /\ log # <<>>
           /\ IsPrefix(log, Program)
           /\ log[Len(log)] = failedAt

C3_Witness == Terminated /\ failedAt = "set_title" /\ exitCode = 1

\* C4: the statements run in program order, none skipped, repeated or
\* reordered; a successful execution ran each exactly once, and the file it
\* saved holds the polar axis with the one curve and the title.
C4_FixedOrder ==
    /\ IsPrefix(log, Program)
    /\ status = "ok" =>
        /\ log = Program
        /\ file = WrittenFile([axes |-> "polar", lines |-> <<Curve>>,
                               title |-> Title])

C4_Witness == status = "ok" /\ file.kind = "pdf" /\ file.content.title = Title

\* C5: theta and r have N = 100 elements each, over the same indices, and the
\* curve passed to plot pairs theta[i] with r[i].
C5_Lengths ==
    /\ Completed("linspace") => Len(theta) = N
    /\ Completed("radius") => Len(r) = N /\ DOMAIN r = DOMAIN theta
    /\ Completed("plot") =>
        /\ fig.lines = <<Curve>>
        /\ Len(fig.lines[1].x) = N
        /\ Len(fig.lines[1].y) = N

C5_Witness == Completed("plot") /\ Len(fig.lines) = 1

\* C6: theta starts at 0, ends at 2*pi, is strictly increasing, and every
\* spacing is 2*pi/(N-1) within the tolerance.
C6_EvenlySpaced ==
    Completed("linspace") =>
        /\ theta[1] = 0
        /\ theta[N] = TwoPi
        /\ \A i \in 1..(N - 1) :
            /\ theta[i] < theta[i + 1]
            /\ Abs((N - 1) * (theta[i + 1] - theta[i]) - TwoPi) <= (N - 1) * Tol

C6_Witness == Completed("linspace") /\ theta[N] = TwoPi /\ theta[2] > 0

\* C7: r[i] is 1 + sin(4*theta[i]) for every i, equal angles give equal
\* radii, and neither the angle nor the radius statement ever raises.
C7_Pointwise ==
    /\ failedAt \notin {"linspace", "radius"}
    /\ Completed("radius") =>
        /\ \A i \in 1..N : r[i] = One + Sin(4 * theta[i])
        /\ \A i, j \in 1..N : 4 * theta[i] = 4 * theta[j] => r[i] = r[j]

C7_Witness == Completed("radius") /\ r[1] = One /\ r[2] > One

\* C8: every radius lies in [0, 2].
C8_Range ==
    Completed("radius") => \A i \in 1..N : 0 <= r[i] /\ r[i] <= 2 * One

C8_Witness ==
    /\ Completed("radius")
    /\ \E i \in 1..N : r[i] < One \div 1000
    /\ \E i \in 1..N : r[i] > 2 * One - One \div 1000

\* C9: once show has been invoked the figure is the one savefig wrote, and
\* the viewer displays exactly what the file holds.
C9_ShownIsSaved ==
    /\ InLog("show") => file.kind = "pdf" /\ file.content = fig
    /\ viewer # "none" => file.kind = "pdf" /\ shownFig = file.content

C9_Witness == viewer = "open" /\ shownFig.title = Title /\ Len(shownFig.lines) = 1

\* C10: with the viewer eventually dismissed every execution terminates; a
\* running program can always take its next step except while show waits for
\* the open viewer, and there it cannot.
C10_Terminates ==
    /\ <>Terminated
    /\ [](status = "running" /\ pc # "blocked" => ENABLED Step)
    /\ [](pc = "blocked" /\ viewer = "open" => ~ENABLED Step)

C10_Witness == status = "ok" /\ viewer = "closed"

=============================================================================
